---- MODULE Spec2Model ----
(***************************************************************************)
(* Tool adapters of the Cognitora / OpenAI Agents SDK integration examples. *)
(*                                                                         *)
(* A tool adapter receives arguments chosen by the language model, issues  *)
(* one remote execute request, inspects the structured result (status and  *)
(* ordered output items) and returns one text value to the agent runtime.  *)
(* Four variants exist: execute_code, execute_code_with_network,           *)
(* execute_python_analysis and analyze_data_and_create_chart.              *)
(*                                                                         *)
(* Text is modelled as a sequence of tokens: a token is either one         *)
(* character of program output ("a", "b", "\n") or one literal fragment of *)
(* an f-string of the source.  Concatenation is \o, so containment, prefix *)
(* and equality of texts are all decided on the token sequence.            *)
(* The emoji that open some literals of the source are written [ok], [x]   *)
(* and [!].                                                                *)
(*                                                                         *)
(* Spec runs the tool adapters, SpecDownload the file transfer helper      *)
(* download_file_from_sandbox, SpecSandbox both, and SpecScripts the main  *)
(* function of each of the five scripts with the agent runtime as a        *)
(* sequential caller of tools.                                             *)
(***************************************************************************)
EXTENDS Integers, Sequences, FiniteSets, TLC

\* ------------------------------------------------------------------ bounds
MaxOutputs == 3
MaxRequests == 3

\* ------------------------------------------------------- values and inputs
NL == "\n"
EmptyText == << >>

Variants == {"execute_code", "execute_code_with_network",
             "execute_python_analysis", "analyze_data_and_create_chart"}

Languages == {"python", "javascript", "bash"}
Codes == {"print(1)", "x = 1"}
ChartTypes == {"bar"}
\* analysis_description: a sequence of words, some of them capitalised
Descriptions == {<<"Revenue", "by", "category">>, <<"sales", "by", "region">>}
OutputFilenames == {"chart.png"}

Statuses == {"queued", "running", "succeeded", "error", "failed"}
OutputTypes == {"stdout", "stderr"}
\* data of an output item: the empty string, one character, another character
OutputData == {<< >>, <<"a">>, <<"b">>}
OutputItems == [type : OutputTypes, data : OutputData]

\* execution_time_ms of a result: Absent when the attribute is missing
Absent == -1
ExecTimes == {Absent, 7}
ExceptionMessages == {"timeout", "unauthorized"}

RECURSIVE SeqsUpTo(_, _)
SeqsUpTo(S, n) ==
    IF n = 0 THEN {<< >>}
    ELSE LET shorter == SeqsUpTo(S, n - 1)
         IN  shorter \cup {Append(s, x) : s \in {t \in shorter : Len(t) = n - 1}, x \in S}

ExecutionResults ==
    [status : Statuses, outputs : SeqsUpTo(OutputItems, MaxOutputs),
     execution_time_ms : ExecTimes]

NoResult == [status |-> "none", outputs |-> << >>, execution_time_ms |-> Absent]
NoArgs == [code |-> "", language |-> "", chart_type |-> "",
           analysis_description |-> << >>, output_filename |-> ""]
NoRequest == [code |-> << >>, language |-> "", networking |-> FALSE]

\* --------------------------------------------------------- text primitives
\* str.join called on the empty separator
RECURSIVE Join_NoSeparator(_, _)
Join_NoSeparator(sep, lines) ==
    IF Len(lines) = 0 THEN EmptyText
    ELSE lines[1] \o Join_NoSeparator(sep, Tail(lines))

\* str.join
RECURSIVE Join(_, _)
Join(sep, lines) ==
    IF Len(lines) = 0 THEN EmptyText
    ELSE IF Len(lines) = 1 THEN lines[1]
    ELSE lines[1] \o sep \o Join(sep, Tail(lines))

\* the `in` operator on strings
Contains(text, part) ==
    \E i \in 0..(Len(text) - Len(part)) :
        \A k \in 1..Len(part) : text[i + k] = part[k]

\* str() of a small non-negative integer
IntToStr(n) ==
    CASE n = 0 -> "0"
      [] n = 7 -> "7"
      [] OTHER -> "?"

\* getattr(result.data, 'execution_time_ms', 0)
GetExecTime(result) ==
    IF result.execution_time_ms = Absent THEN 0 ELSE result.execution_time_ms

\* ------------------------------------------------- formatting of a result
\* only one of the two failing statuses is tested
IsFailing_ErrorOnly(status) == status = "error"

\* every status but "succeeded" is taken as a failure
IsFailing_NotSucceeded(status) == status # "succeeded"

\* status == "error" or status == "failed"
IsFailing(status) == status = "error" \/ status = "failed"

\* list.insert(0, data) in place of list.append
AppendLine_Prepend(lines, data) == <<data>> \o lines

\* list.append
AppendLine(lines, data) == Append(lines, data)

\* the loop over result.data.outputs that fills output_lines and error_lines
RECURSIVE Partition(_)
Partition(outputs) ==
    IF Len(outputs) = 0
    THEN [output_lines |-> << >>, error_lines |-> << >>]
    ELSE LET n == Len(outputs)
             before == Partition(SubSeq(outputs, 1, n - 1))
             output_item == outputs[n]
         IN  IF output_item.type = "stdout"
             THEN [before EXCEPT !.output_lines = AppendLine(@, output_item.data)]
             ELSE IF output_item.type = "stderr"
             THEN [before EXCEPT !.error_lines = AppendLine(@, output_item.data)]
             ELSE before

\* the error block is appended to result_parts before the output block
ResultParts_ErrorsFirst(output_lines, error_lines) ==
    (IF Len(error_lines) > 0
     THEN << <<"Errors:", NL>> \o Join(<<NL>>, error_lines) >>
     ELSE << >>)
    \o
    (IF Len(output_lines) > 0 THEN << Join(<<NL>>, output_lines) >> ELSE << >>)

\* result_parts of execute_code, execute_code_with_network and
\* execute_python_analysis: the output block, then the error block
ResultParts(output_lines, error_lines) ==
    (IF Len(output_lines) > 0 THEN << Join(<<NL>>, output_lines) >> ELSE << >>)
    \o
    (IF Len(error_lines) > 0
     THEN << <<"Errors:", NL>> \o Join(<<NL>>, error_lines) >>
     ELSE << >>)

\* "\n".join(result_parts)
JoinParts_SingleNewline(result_parts) == Join(<<NL>>, result_parts)

\* "\n\n".join(result_parts)
JoinParts(result_parts) == Join(<<NL, NL>>, result_parts)

\* 1-example-basic-tasks.py, execute_code: the text returned for a result
execute_code(result) ==
    IF IsFailing(result.status)
    THEN <<"Execution failed with status: ", result.status>>
    ELSE LET lines == Partition(result.outputs)
             result_parts == ResultParts(lines.output_lines, lines.error_lines)
         IN  IF Len(result_parts) > 0
             THEN JoinParts(result_parts)
             ELSE <<"Code executed successfully (status: ", result.status,
                    ", execution time: ", IntToStr(GetExecTime(result)),
                    "ms) but produced no output.">>

\* the failing branch also reports the output captured before the failure
execute_code_with_network_PartialOutput(result) ==
    LET lines == Partition(result.outputs)
        result_parts == ResultParts(lines.output_lines, lines.error_lines)
    IN  IF IsFailing(result.status)
        THEN <<"Execution failed with status: ", result.status>>
             \o JoinParts(result_parts)
        ELSE IF Len(result_parts) > 0
             THEN JoinParts(result_parts)
             ELSE <<"Code executed successfully (status: ", result.status,
                    ") but produced no output.">>

\* 4-example-live-crypto-tracker.py, execute_code_with_network
execute_code_with_network(result) ==
    IF IsFailing(result.status)
    THEN <<"Execution failed with status: ", result.status>>
    ELSE LET lines == Partition(result.outputs)
             result_parts == ResultParts(lines.output_lines, lines.error_lines)
         IN  IF Len(result_parts) > 0
             THEN JoinParts(result_parts)
             ELSE <<"Code executed successfully (status: ", result.status,
                    ") but produced no output.">>

\* 5-example-multi-agent-research.py, execute_python_analysis
execute_python_analysis(result) ==
    IF IsFailing(result.status)
    THEN <<"[x] Execution failed with status: ", result.status>>
    ELSE LET lines == Partition(result.outputs)
             result_parts == ResultParts(lines.output_lines, lines.error_lines)
         IN  IF Len(result_parts) > 0
             THEN <<"[ok] Analysis complete:", NL>> \o Join(<<NL>>, result_parts)
             ELSE <<"[!] Code executed but no output captured. Make sure to use print() statements!">>

\* error_msgs of analyze_data_and_create_chart: the stderr data, in order
RECURSIVE ErrorMsgs(_)
ErrorMsgs(outputs) ==
    IF Len(outputs) = 0 THEN << >>
    ELSE LET n == Len(outputs)
             before == ErrorMsgs(SubSeq(outputs, 1, n - 1))
         IN  IF outputs[n].type = "stderr"
             THEN AppendLine(before, outputs[n].data)
             ELSE before

\* 6-example-data-visualization.py, analyze_data_and_create_chart
analyze_data_and_create_chart(result) ==
    IF IsFailing(result.status)
    THEN <<"[x] Execution failed: ", result.status, NL>>
         \o Join(<<NL>>, ErrorMsgs(result.outputs))
    ELSE LET lines == Partition(result.outputs)
             result_text ==
                 IF Len(lines.output_lines) > 0
                 THEN <<"[ok] Chart created successfully!", NL, NL>>
                      \o Join(<<NL>>, lines.output_lines)
                 ELSE <<"[!] Chart created but no analysis output captured.">>
         IN  IF Len(lines.error_lines) > 0
             THEN result_text \o <<NL, NL, "[!] Warnings/Errors:", NL>>
                  \o Join(<<NL>>, lines.error_lines)
             ELSE result_text

\* the text a variant returns for a remote result
AdapterText(v, result) ==
    CASE v = "execute_code" -> execute_code(result)
      [] v = "execute_code_with_network" -> execute_code_with_network(result)
      [] v = "execute_python_analysis" -> execute_python_analysis(result)
      [] v = "analyze_data_and_create_chart" -> analyze_data_and_create_chart(result)

\* traceback.format_exc() inside the handler
FormatExc(msg) ==
    <<"Traceback (most recent call last):", NL, "Exception: ", msg, NL>>

\* the except branch of each variant: the text returned when execute raises
ExceptText(v, msg) ==
    CASE v = "execute_code" -> <<"Error executing code: ", msg>>
      [] v = "execute_code_with_network" -> <<"Error executing code: ", msg>>
      [] v = "execute_python_analysis" -> <<"[x] Execution failed: ", msg>>
      [] v = "analyze_data_and_create_chart" ->
             <<"[x] Error: ", msg, NL>> \o FormatExc(msg)

\* the handler names one exception class only
Catches_TimeoutOnly(msg) == msg = "timeout"

\* `except Exception as e` encloses the whole body of every variant
Catches(msg) == TRUE

\* the handler retries the request instead of returning
PcAfterRaise_Retry == "request"

\* every branch of the body and of the handler is a return statement
PcAfterResult == "returned"
PcAfterRaise == "returned"

\* --------------------------------------------------------- request building
\* str.lower on one word
Lower(w) ==
    CASE w = "Revenue" -> "revenue"
      [] w = "Category" -> "category"
      [] w = "Region" -> "region"
      [] w = "Top" -> "top"
      [] w = "Daily" -> "daily"
      [] OTHER -> w

\* the keywords of the chart selection that occur inside a lower-case word:
\* `in` tests substrings, so a keyword is found inside a longer word too
KeywordsIn(w) ==
    CASE w = "products" -> {"product"}
      [] w = "timeline" -> {"time"}
      [] w = "stop" -> {"top"}
      [] OTHER -> {w}

\* "word" in analysis_description.lower()
InLower(word, description) ==
    \E i \in 1..Len(description) : word \in KeywordsIn(Lower(description[i]))

\* the region test comes before the revenue-and-category test
ChartBody_RegionFirst(description) ==
    IF InLower("region", description)
    THEN "# Revenue by Region Analysis"
    ELSE IF InLower("revenue", description) /\ InLower("category", description)
    THEN "# Revenue by Category Analysis"
    ELSE IF InLower("product", description) /\ InLower("top", description)
    THEN "# Top Products Analysis"
    ELSE IF InLower("trend", description) \/ InLower("time", description)
    THEN "# Daily Revenue Trend"
    ELSE "# Default Analysis: Revenue by Category"

\* the chart body chosen from analysis_description
ChartBody(description) ==
    IF InLower("revenue", description) /\ InLower("category", description)
    THEN "# Revenue by Category Analysis"
    ELSE IF InLower("region", description)
    THEN "# Revenue by Region Analysis"
    ELSE IF InLower("product", description) /\ InLower("top", description)
    THEN "# Top Products Analysis"
    ELSE IF InLower("trend", description) \/ InLower("time", description)
    THEN "# Daily Revenue Trend"
    ELSE "# Default Analysis: Revenue by Category"

\* create_sample_sales_data(): the CSV text
SampleCsv == "Date,Product,Category,Units_Sold,Revenue,Region"

\* the code analyze_data_and_create_chart generates
GeneratedCode(csv_data, a) ==
    <<"csv_content = ", csv_data, "# Analysis description: ">>
    \o a.analysis_description
    \o <<"# Chart type: ", a.chart_type, ChartBody(a.analysis_description),
         "plt.savefig('/tmp/", a.output_filename>>

\* networking is switched on by an argument of the caller
RequestOf_NetworkingByLanguage(v, a, csv_data) ==
    [code |-> IF v = "analyze_data_and_create_chart"
              THEN GeneratedCode(csv_data, a) ELSE <<a.code>>,
     language |-> IF v \in {"execute_code", "execute_code_with_network"}
                  THEN a.language ELSE "python",
     networking |-> (v = "execute_code_with_network" \/ a.language = "bash")]

\* the arguments of cognitora_client.code_interpreter.execute(...)
RequestOf(v, a, csv_data) ==
    CASE v = "execute_code" ->
             [code |-> <<a.code>>, language |-> a.language, networking |-> FALSE]
      [] v = "execute_code_with_network" ->
             [code |-> <<a.code>>, language |-> a.language, networking |-> TRUE]
      [] v = "execute_python_analysis" ->
             [code |-> <<a.code>>, language |-> "python", networking |-> FALSE]
      [] v = "analyze_data_and_create_chart" ->
             [code |-> GeneratedCode(csv_data, a), language |-> "python",
              networking |-> FALSE]

\* the arguments the language model may pass to a variant
ArgsOf(v) ==
    CASE v = "execute_code" ->
             {[NoArgs EXCEPT !.code = c, !.language = l] : c \in Codes, l \in Languages}
      [] v = "execute_code_with_network" ->
             {[NoArgs EXCEPT !.code = c, !.language = l] : c \in Codes, l \in Languages}
      [] v = "execute_python_analysis" ->
             {[NoArgs EXCEPT !.code = c] : c \in Codes}
      [] v = "analyze_data_and_create_chart" ->
             {[NoArgs EXCEPT !.chart_type = t, !.analysis_description = d,
                             !.output_filename = f] :
                 t \in ChartTypes, d \in Descriptions, f \in OutputFilenames}

\* ------------------------------------------------------ file transfer helper
\* the sentinels and the error line the helper's remote code prints
BASE64_START == "BASE64_START"
BASE64_END == "BASE64_END"
FileNotFound == "ERROR: File not found"

Missing == <<-1>>
NoFile == <<-2>>
NoWrite == <<-3>>

\* bytes the chart file may hold: NUL, the newline byte, 0xFF
ByteValues == {0, 10, 255}
MaxBytes == 3
ByteSeqs == SeqsUpTo(ByteValues, MaxBytes)

\* the base64 alphabet, index 0 first
B64Alphabet ==
    <<"A", "B", "C", "D", "E", "F", "G", "H", "I", "J", "K", "L", "M", "N", "O", "P",
      "Q", "R", "S", "T", "U", "V", "W", "X", "Y", "Z", "a", "b", "c", "d", "e", "f",
      "g", "h", "i", "j", "k", "l", "m", "n", "o", "p", "q", "r", "s", "t", "u", "v",
      "w", "x", "y", "z", "0", "1", "2", "3", "4", "5", "6", "7", "8", "9", "+", "/">>

\* the URL-safe alphabet: "-" and "_" for the last two indexes
B64Char_UrlSafe(i) ==
    IF i = 62 THEN "-" ELSE IF i = 63 THEN "_" ELSE B64Alphabet[i + 1]

B64Char(i) == B64Alphabet[i + 1]

IsB64Char(c) == \E i \in 1..Len(B64Alphabet) : B64Alphabet[i] = c

B64Index(c) == (CHOOSE i \in 1..Len(B64Alphabet) : B64Alphabet[i] = c) - 1

\* the characters of one token: a sentinel is spelled out, any other token
\* that is not a single character is left whole
Letters(token) ==
    CASE token = BASE64_START ->
             <<"B", "A", "S", "E", "6", "4", "_", "S", "T", "A", "R", "T">>
      [] token = BASE64_END ->
             <<"B", "A", "S", "E", "6", "4", "_", "E", "N", "D">>
      [] OTHER -> <<token>>

\* a text as the sequence of its characters
RECURSIVE Spell(_)
Spell(text) ==
    IF Len(text) = 0 THEN << >>
    ELSE Letters(text[1]) \o Spell(Tail(text))

\* base64.b64encode(content).decode('utf-8'), run by the remote code
RECURSIVE b64encode(_)
b64encode(bytes) ==
    IF Len(bytes) = 0 THEN EmptyText
    ELSE IF Len(bytes) = 1
    THEN <<B64Char(bytes[1] \div 4), B64Char((bytes[1] % 4) * 16), "=", "=">>
    ELSE IF Len(bytes) = 2
    THEN <<B64Char(bytes[1] \div 4),
           B64Char((bytes[1] % 4) * 16 + bytes[2] \div 16),
           B64Char((bytes[2] % 16) * 4), "=">>
    ELSE <<B64Char(bytes[1] \div 4),
           B64Char((bytes[1] % 4) * 16 + bytes[2] \div 16),
           B64Char((bytes[2] % 16) * 4 + bytes[3] \div 64),
           B64Char(bytes[3] % 64)>>
         \o b64encode(SubSeq(bytes, 4, Len(bytes)))

\* the 6-bit groups b64decode(validate=False) keeps: every character outside
\* the alphabet is discarded
SixBits(text) ==
    LET kept == SelectSeq(Spell(text), IsB64Char)
    IN  [i \in 1..Len(kept) |-> B64Index(kept[i])]

PadCount(text) == Len(SelectSeq(Spell(text), LAMBDA c : c = "="))

\* the bytes of complete and of padded groups
RECURSIVE DecodeGroups(_)
DecodeGroups(g) ==
    IF Len(g) < 2 THEN << >>
    ELSE IF Len(g) = 2 THEN <<g[1] * 4 + g[2] \div 16>>
    ELSE IF Len(g) = 3
    THEN <<g[1] * 4 + g[2] \div 16, (g[2] % 16) * 16 + g[3] \div 4>>
    ELSE <<g[1] * 4 + g[2] \div 16, (g[2] % 16) * 16 + g[3] \div 4,
           (g[3] % 4) * 64 + g[4]>>
         \o DecodeGroups(SubSeq(g, 5, Len(g)))

\* base64.b64decode raises binascii.Error: one data character left over, or
\* a short last group without its padding (padding is trailing in every
\* text enumerated here)
b64decodeRaises(text) ==
    LET left == Len(SixBits(text)) % 4
    IN  \/ left = 1
        \/ left = 2 /\ PadCount(text) < 2
        \/ left = 3 /\ PadCount(text) < 1

\* base64.b64decode(encoded_content)
b64decode(text) == DecodeGroups(SixBits(text))

IsSpace(c) == c \in {NL, " "}

\* str.strip()
RECURSIVE Strip(_)
Strip(text) ==
    IF Len(text) = 0 THEN text
    ELSE IF IsSpace(text[1]) THEN Strip(Tail(text))
    ELSE IF IsSpace(text[Len(text)]) THEN Strip(SubSeq(text, 1, Len(text) - 1))
    ELSE text

\* str.index(token): the 1-based position of the first occurrence
IndexOf(text, token) ==
    CHOOSE i \in 1..Len(text) :
        text[i] = token /\ \A k \in 1..(i - 1) : text[k] # token

\* start is taken at the sentinel, without adding its length
Between_FromSentinel(output) ==
    SubSeq(output, IndexOf(output, BASE64_START),
                   IndexOf(output, BASE64_END) - 1)

\* output[start:end] with start just after the first BASE64_START and end at
\* the first BASE64_END; empty when end lies before start
Between(output) ==
    SubSeq(output, IndexOf(output, BASE64_START) + 1,
                   IndexOf(output, BASE64_END) - 1)

\* the for loop of download_file_from_sandbox over result.data.outputs:
\* what it returns, and the bytes it wrote to local_path (or NoWrite)
RECURSIVE DownloadScan(_)
DownloadScan(outputs) ==
    IF Len(outputs) = 0 THEN [ok |-> FALSE, write |-> NoWrite]
    ELSE LET output_item == outputs[1]
             output == output_item.data
         IN  IF output_item.type = "stdout"
             THEN IF Contains(output, <<FileNotFound>>)
                  THEN [ok |-> FALSE, write |-> NoWrite]
                  ELSE IF Contains(output, <<BASE64_START>>)
                          /\ Contains(output, <<BASE64_END>>)
                  THEN LET encoded_content == Strip(Between(output))
                       IN  IF b64decodeRaises(encoded_content)
                           THEN [ok |-> FALSE, write |-> NoWrite]
                           ELSE [ok |-> TRUE, write |-> b64decode(encoded_content)]
                  ELSE DownloadScan(Tail(outputs))
             ELSE DownloadScan(Tail(outputs))

\* stdout of the helper's remote code for a sandbox file
RemoteStdout(file) ==
    IF file = Missing THEN <<FileNotFound, NL>>
    ELSE <<BASE64_START, NL>> \o b64encode(file) \o <<NL, BASE64_END, NL>>

\* the request download_file_from_sandbox issues for a sandbox path
DownloadRequest(filename) ==
    [code |-> <<"if not os.path.exists('">> \o filename
              \o <<"'): print(", FileNotFound, ") else: print(", BASE64_START,
                   "); print(base64.b64encode(content)); print(", BASE64_END,
                   ")">>,
     language |-> "python", networking |-> FALSE]

\* the output_filename named in the query of each visualization
ChartFilenames ==
    <<"revenue_by_category.png", "revenue_by_region.png", "top_products.png",
      "daily_trend.png">>

\* f"/tmp/{chart_filename}"
SandboxPath(chart_filename) == <<"/tmp/", chart_filename>>

SandboxPaths == {SandboxPath(ChartFilenames[k]) : k \in DOMAIN ChartFilenames}

\* the elements of a set of positions, ascending
RECURSIVE Ascending(_)
Ascending(S) ==
    IF S = {} THEN << >>
    ELSE LET m == CHOOSE x \in S : \A y \in S : x <= y
         IN  <<m>> \o Ascending(S \ {m})

\* text cut after each position of cuts, as consecutive stdout items
SplitInto(text, cuts) ==
    LET at == <<0>> \o Ascending(cuts) \o <<Len(text)>>
    IN  [i \in 1..(Len(at) - 1) |->
            [type |-> "stdout", data |-> SubSeq(text, at[i] + 1, at[i + 1])]]

MaxCuts == 2

\* the ways the service may deliver a stdout text as output items
Deliveries(text) ==
    {SplitInto(text, cuts) :
        cuts \in {c \in SUBSET (1..(Len(text) - 1)) : Cardinality(c) <= MaxCuts}}

\* outputs the helper's remote code does not print, which the helper must
\* still survive: nothing, the frame on stderr, a frame around characters
\* outside the alphabet, around a truncated payload, a lone sentinel, the
\* sentinels in reverse order, a warning line before the frame
OddOutputs ==
    {<< >>,
     <<[type |-> "stderr", data |-> <<BASE64_START, NL, "Q", "Q", "=", "=", NL, BASE64_END>>]>>,
     <<[type |-> "stdout", data |-> <<BASE64_START, NL, "!", "!", "!", "!", NL, BASE64_END>>]>>,
     <<[type |-> "stdout", data |-> <<BASE64_START, NL, "Q", "U", "!", "I", "=", NL, BASE64_END>>]>>,
     <<[type |-> "stdout", data |-> <<BASE64_START, NL, "Q", NL, BASE64_END>>]>>,
     <<[type |-> "stdout", data |-> <<BASE64_START, NL, "Q", "Q", NL, BASE64_END>>]>>,
     <<[type |-> "stdout", data |-> <<BASE64_START, NL, "Q", "Q", "=", "=">>]>>,
     <<[type |-> "stdout", data |-> <<"Q", "Q", "=", "=", NL, BASE64_END, NL>>]>>,
     <<[type |-> "stdout", data |-> <<BASE64_END, NL, BASE64_START, NL>>]>>,
     <<[type |-> "stdout", data |-> <<"a", NL>>],
       [type |-> "stdout", data |-> <<BASE64_START, NL, "Q", "Q", "=", "=", NL, BASE64_END, NL>>]>>}

\* the results the remote call of the helper may return for a sandbox file
DownloadResults(file) ==
    [status : {"succeeded", "failed"},
     outputs : Deliveries(RemoteStdout(file)) \cup OddOutputs,
     execution_time_ms : {Absent}]

\* bool as the text of its Python literal
PyBool(b) == IF b THEN "True" ELSE "False"

\* ------------------------------------------------------------------- state
VARIABLES
    pc,            \* position of the tool invocation
    variant,       \* the tool adapter the runtime invoked
    args,          \* the arguments the language model chose
    csv_content,   \* the module-level dataset of the visualization script
    request,       \* the last remote execute request issued
    nreq,          \* remote execute requests issued by this invocation
    outcome,       \* "none", "result" or "raised"
    result,        \* result.data of the remote call, when it returned
    exc,           \* str(e), when the remote call raised
    output_lines,  \* local of the adapter: stdout data collected
    error_lines,   \* local of the adapter: stderr data collected
    ret,           \* the text returned to the agent runtime
    nret           \* values returned to the agent runtime by this invocation

vars == <<pc, variant, args, csv_content, request, nreq, outcome, result, exc,
          output_lines, error_lines, ret, nret>>

\* state of the file transfer helper and of the two file systems
VARIABLES
    remote_file,   \* bytes of the chart file in the sandbox, or Missing
    files,         \* bytes of the file at local_path, or NoFile
    files0,        \* the local file when download_file_from_sandbox was called
    dl_ret         \* what download_file_from_sandbox returned

dvars == <<remote_file, files, files0, dl_ret>>

\* no download has been started
DownloadIdle ==
    /\ remote_file = Missing
    /\ files = NoFile
    /\ files0 = NoFile
    /\ dl_ret = "none"

\* state of the script that is running, when one is
VARIABLES
    script,           \* which script runs, "none" outside the scripts
    keys,             \* the credentials present in the environment
    mpc,              \* position of main
    step,             \* 1-based index of the task main is at
    inflight,         \* Runner.run calls of main that have not returned
    stack,            \* tool invocations in flight, outermost first
    inreq,            \* remote execute requests of tools in flight
    ncalls,           \* tool invocations started during the current dispatch
    events,           \* what main did so far, in order
    fs,               \* directories and files main created, in order
    user_input,       \* interactive: the stripped line last read
    nreads,           \* interactive: calls of input()
    tasks_completed,  \* interactive: the session counter
    downloaded_files, \* visualization: charts downloaded, in order
    results           \* visualization: charts whose dispatch returned, in order

svars == <<script, keys, mpc, step, inflight, stack, inreq, ncalls, events, fs,
           user_input, nreads, tasks_completed, downloaded_files, results>>

\* no script is running
ScriptsIdle ==
    /\ script = "none"
    /\ keys = {}
    /\ mpc = "off"
    /\ step = 0
    /\ inflight = 0
    /\ stack = << >>
    /\ inreq = 0
    /\ ncalls = 0
    /\ events = << >>
    /\ fs = << >>
    /\ user_input = EmptyText
    /\ nreads = 0
    /\ tasks_completed = 0
    /\ downloaded_files = << >>
    /\ results = << >>

\* everything the tool adapters never touch
others == <<dvars, svars>>

Init ==
    /\ pc = "idle"
    /\ variant = "none"
    /\ args = NoArgs
    /\ csv_content = SampleCsv
    /\ request = NoRequest
    /\ nreq = 0
    /\ outcome = "none"
    /\ result = NoResult
    /\ exc = ""
    /\ output_lines = << >>
    /\ error_lines = << >>
    /\ ret = EmptyText
    /\ nret = 0
    /\ DownloadIdle
    /\ ScriptsIdle

\* the agent runtime calls a tool with model-chosen arguments
Invoke(v, a) ==
    /\ pc = "idle"
    /\ pc' = "request"
    /\ variant' = v
    /\ args' = a
    /\ UNCHANGED <<csv_content, request, nreq, outcome, result, exc,
                   output_lines, error_lines, ret, nret>>
    /\ UNCHANGED others

\* cognitora_client.code_interpreter.execute(...) is called
Execute ==
    /\ pc = "request"
    /\ nreq < MaxRequests
    /\ request' = RequestOf(variant, args, csv_content)
    /\ nreq' = nreq + 1
    /\ pc' = "awaiting"
    /\ UNCHANGED <<variant, args, csv_content, outcome, result, exc,
                   output_lines, error_lines, ret, nret>>
    /\ UNCHANGED others

\* the body of the try block after execute(...) returned result r
ReturnResult(r) ==
    /\ outcome' = "result"
    /\ result' = r
    /\ exc' = ""
    /\ IF IsFailing(r.status)
       THEN /\ output_lines' = << >>
            /\ error_lines' =
                 IF variant = "analyze_data_and_create_chart"
                 THEN ErrorMsgs(r.outputs) ELSE << >>
       ELSE /\ output_lines' = Partition(r.outputs).output_lines
            /\ error_lines' = Partition(r.outputs).error_lines
    /\ ret' = AdapterText(variant, r)
    /\ nret' = nret + 1
    /\ pc' = PcAfterResult
    /\ UNCHANGED <<variant, args, csv_content, request, nreq>>
    /\ UNCHANGED others

\* the remote call returns a result; the adapter formats and returns it
RemoteReturn ==
    /\ pc = "awaiting"
    /\ \E r \in ExecutionResults : ReturnResult(r)

\* the remote call raises; the handler returns a failure string
RemoteRaise(msg) ==
    /\ pc = "awaiting"
    /\ outcome' = "raised"
    /\ exc' = msg
    /\ IF Catches(msg)
       THEN /\ ret' = ExceptText(variant, msg)
            /\ nret' = nret + 1
            /\ pc' = PcAfterRaise
       ELSE /\ pc' = "faulted"
            /\ UNCHANGED <<ret, nret>>
    /\ UNCHANGED <<variant, args, csv_content, request, nreq, result,
                   output_lines, error_lines>>
    /\ UNCHANGED others

\* the agent runtime takes the text; nothing of the invocation is retained
Deliver ==
    /\ pc = "returned"
    /\ pc' = "idle"
    /\ variant' = "none"
    /\ args' = NoArgs
    /\ request' = NoRequest
    /\ nreq' = 0
    /\ outcome' = "none"
    /\ result' = NoResult
    /\ exc' = ""
    /\ output_lines' = << >>
    /\ error_lines' = << >>
    /\ ret' = EmptyText
    /\ nret' = 0
    /\ UNCHANGED csv_content
    /\ UNCHANGED others

\* ------------------------------------------- download_file_from_sandbox
\* local files before the helper runs: none, or an older chart at local_path
LocalFiles == {NoFile, <<7>>}

InitDownload ==
    /\ pc = "idle"
    /\ variant = "none"
    /\ args = NoArgs
    /\ csv_content = SampleCsv
    /\ request = NoRequest
    /\ nreq = 0
    /\ outcome = "none"
    /\ result = NoResult
    /\ exc = ""
    /\ output_lines = << >>
    /\ error_lines = << >>
    /\ ret = EmptyText
    /\ nret = 0
    /\ remote_file \in ByteSeqs \cup {Missing}
    /\ files \in LocalFiles
    /\ files0 = files
    /\ dl_ret = "none"
    /\ ScriptsIdle

\* the helper is called and issues its remote execute request
HelperCalls(filename) ==
    /\ pc = "idle"
    /\ variant' = "download_file_from_sandbox"
    /\ request' = DownloadRequest(filename)
    /\ nreq' = nreq + 1
    /\ files0' = files
    /\ pc' = "dl_awaiting"
    /\ UNCHANGED <<args, csv_content, outcome, result, exc, output_lines,
                   error_lines, ret, nret, remote_file, files, dl_ret>>

\* the body of the helper's try block after execute(...) returned r
HelperScans(r) ==
    LET scan == DownloadScan(r.outputs)
    IN  /\ outcome' = "result"
        /\ result' = r
        /\ dl_ret' = PyBool(scan.ok)
        /\ files' = IF scan.write = NoWrite THEN files ELSE scan.write
        /\ pc' = "dl_returned"
        /\ UNCHANGED <<variant, args, csv_content, request, nreq, exc,
                       output_lines, error_lines, ret, nret, remote_file, files0>>

\* the remote call returns; the helper scans the items and returns a bool
HelperReturns ==
    /\ pc = "dl_awaiting"
    /\ \E r \in DownloadResults(remote_file) : HelperScans(r)

\* the remote call raises; the helper's handler returns False
HelperRaises(msg) ==
    /\ pc = "dl_awaiting"
    /\ outcome' = "raised"
    /\ exc' = msg
    /\ dl_ret' = PyBool(FALSE)
    /\ pc' = "dl_returned"
    /\ UNCHANGED <<variant, args, csv_content, request, nreq, result,
                   output_lines, error_lines, ret, nret, remote_file, files, files0>>

\* the helper called on its own, outside a script
DownloadCall(filename) == HelperCalls(filename) /\ UNCHANGED svars

DownloadReturn == HelperReturns /\ UNCHANGED svars

DownloadRaise(msg) == HelperRaises(msg) /\ UNCHANGED svars

DownloadNext ==
    \/ \E f \in SandboxPaths : DownloadCall(f)
    \/ DownloadReturn
    \/ \E msg \in ExceptionMessages : DownloadRaise(msg)

Next ==
    \/ \E v \in Variants : \E a \in ArgsOf(v) : Invoke(v, a)
    \/ Execute
    \/ RemoteReturn
    \/ \E msg \in ExceptionMessages : RemoteRaise(msg)
    \/ Deliver

Spec == Init /\ [][Next]_vars

allvars == <<vars, others>>

\* the file transfer helper alone, for every sandbox file
SpecDownload == InitDownload /\ [][DownloadNext]_allvars

\* every function of the repository that issues remote execute requests
SpecSandbox == Init /\ [][Next \/ DownloadNext]_allvars

\* ------------------------------------ the code the chart tool generates
\* descriptions that reach every branch of the chart selection, alone and
\* in competition with an earlier branch
ChartDescriptions ==
    {<<"Total", "revenue", "by", "product", "category">>,
     <<"Total", "revenue", "by", "region">>,
     <<"Top", "5", "products", "by", "total", "revenue">>,
     <<"Daily", "revenue", "trend", "over", "time">>,
     <<"Revenue", "by", "Category", "and", "Region">>,
     <<"top", "products", "by", "region">>,
     <<"top", "products", "trend">>,
     <<"product", "timeline">>,
     <<"top", "sellers", "over", "time">>,
     <<"stop", "products">>,
     <<"category", "mix">>,
     <<"profit">>}

ChartKinds == {"bar", "line", "horizontal_bar"}

\* the arguments the language model may pass to the chart tool
ChartArgs ==
    {[NoArgs EXCEPT !.chart_type = t, !.analysis_description = d,
                    !.output_filename = ChartFilenames[k]] :
        t \in ChartKinds, d \in ChartDescriptions, k \in DOMAIN ChartFilenames}

ChartNext ==
    \/ \E a \in ChartArgs : Invoke("analyze_data_and_create_chart", a)
    \/ Execute

\* analyze_data_and_create_chart up to the request it sends
SpecChart == Init /\ [][ChartNext]_allvars

\* ================================================================ the scripts
\* bound on the lines the interactive session reads
MaxInputs == 3

\* bound on the tool invocations the runtime starts during one dispatch
MaxToolCalls == 2

Scripts == {"basic", "interactive", "crypto", "multi", "viz"}

Credentials == {"OPENAI_API_KEY", "COGNITORA_API_KEY"}

\* the credentials main tests before anything else
KeysChecked(s) ==
    IF s = "interactive" THEN {"OPENAI_API_KEY"} ELSE Credentials

\* the dispatches main issues; the interactive session has one per task line
NumTasks(s) ==
    CASE s = "basic" -> 8
      [] s = "crypto" -> 2
      [] s = "multi" -> 2
      [] s = "viz" -> Len(ChartFilenames)
      [] OTHER -> MaxInputs

\* the agent main hands to Runner.run
MainAgent(s) ==
    CASE s \in {"basic", "interactive"} -> "TaskExecutor"
      [] s = "crypto" -> "CryptoAnalyst"
      [] s = "multi" -> "research_director"
      [] OTHER -> "data_visualizer"

\* agents exposed to the orchestrator through as_tool
AgentTools == {"data_analyst_tool", "statistician_tool", "report_writer_tool"}

\* the agent an agent-tool runs
AgentOfTool(t) ==
    CASE t = "data_analyst_tool" -> "data_analyst"
      [] t = "statistician_tool" -> "statistician"
      [] OTHER -> "report_writer"

\* the report writer is given the sandbox tool as well
ToolsOf_WriterExecutes(agent) ==
    CASE agent = "TaskExecutor" -> {"execute_code", "save_result"}
      [] agent = "CryptoAnalyst" -> {"execute_code_with_network"}
      [] agent \in {"data_analyst", "statistician", "report_writer"} ->
             {"execute_python_analysis", "save_finding"}
      [] agent = "research_director" -> AgentTools \cup {"save_finding"}
      [] OTHER -> {"analyze_data_and_create_chart"}

\* tools=[...] of each agent
ToolsOf(agent) ==
    CASE agent = "TaskExecutor" -> {"execute_code", "save_result"}
      [] agent = "CryptoAnalyst" -> {"execute_code_with_network"}
      [] agent \in {"data_analyst", "statistician"} ->
             {"execute_python_analysis", "save_finding"}
      [] agent = "report_writer" -> {"save_finding"}
      [] agent = "research_director" -> AgentTools \cup {"save_finding"}
      [] OTHER -> {"analyze_data_and_create_chart"}

\* the tools that call cognitora_client.code_interpreter.execute
SandboxTools == Variants

\* csv_content before main assigned it
NoCsv == "None"

\* one entry of the record of what main did
Ev(e, k) == [e |-> e, k |-> k]

\* main goes on without waiting for the dispatch
PcAfterDispatch_NotAwaited == "ready"

\* `await Runner.run(...)`: main is suspended until the dispatch is over
PcAfterDispatch == "dispatching"

\* a raising dispatch ends every script
PcAfterDispatchRaise_Fatal(s) == "crashed"

\* a one-shot script swallows the fault and carries on
PcAfterDispatchRaise_Swallowed(s) ==
    IF s = "interactive" THEN "reading" ELSE "ready"

\* where main is after Runner.run raised: the interactive loop catches the
\* fault and reads on, the other scripts are left by the fault
PcAfterDispatchRaise(s) == IF s = "interactive" THEN "reading" ELSE "crashed"

\* a failed download leaves the loop
PcAfterDownload_AbortOnFailure(ok, last) ==
    IF ~ok THEN "crashed" ELSE IF last THEN "done" ELSE "ready"

\* where main is after download_file_from_sandbox returned
PcAfterDownload(ok, last) == IF last THEN "done" ELSE "ready"

\* the visualization script goes to its first dispatch without the setup step
PcAfterCheck_SkipSetup(s) == IF s = "interactive" THEN "reading" ELSE "ready"

\* where main is once the credentials were found
PcAfterCheck(s) ==
    CASE s = "viz" -> "setup"
      [] s = "interactive" -> "reading"
      [] OTHER -> "ready"

\* str.lower() leaves every character as it is
LowerText_Identity(text) == text

Uppercase ==
    "B" :> "b" @@ "E" :> "e" @@ "I" :> "i" @@ "Q" :> "q" @@ "T" :> "t"
    @@ "U" :> "u" @@ "X" :> "x" @@ "Y" :> "y"

\* str.lower()
LowerText(text) ==
    [i \in 1..Len(text) |->
        IF text[i] \in DOMAIN Uppercase THEN Uppercase[text[i]] ELSE text[i]]

\* ['exit', 'quit', 'bye', 'q']
ExitKeywords ==
    {<<"e", "x", "i", "t">>, <<"q", "u", "i", "t">>, <<"b", "y", "e">>, <<"q">>}

\* lines input() may return
InputLines ==
    {<< >>, <<" ">>, <<"e", "x", "i", "t">>, <<" ", "Q", "U", "I", "T", " ">>,
     <<"B", "y", "e">>, <<"q">>, <<"h", "i">>,
     <<"q", "u", "i", "t", " ", "i", "t">>}

\* the chart file in the sandbox once a visualization dispatch returned
VizSandboxFiles == {Missing, <<0>>}

InitScripts ==
    /\ pc = "idle"
    /\ variant = "none"
    /\ args = NoArgs
    /\ csv_content = NoCsv
    /\ request = NoRequest
    /\ nreq = 0
    /\ outcome = "none"
    /\ result = NoResult
    /\ exc = ""
    /\ output_lines = << >>
    /\ error_lines = << >>
    /\ ret = EmptyText
    /\ nret = 0
    /\ DownloadIdle
    /\ script \in Scripts
    /\ keys \in SUBSET Credentials
    /\ mpc = "start"
    /\ step = 1
    /\ inflight = 0
    /\ stack = << >>
    /\ inreq = 0
    /\ ncalls = 0
    /\ events = << >>
    /\ fs = << >>
    /\ user_input = EmptyText
    /\ nreads = 0
    /\ tasks_completed = 0
    /\ downloaded_files = << >>
    /\ results = << >>

\* main tests the credentials and returns early when one it tests is absent
CheckKeys ==
    /\ mpc = "start"
    /\ IF KeysChecked(script) \subseteq keys
       THEN /\ mpc' = PcAfterCheck(script)
            /\ UNCHANGED events
       ELSE /\ mpc' = "early"
            /\ events' = Append(events, Ev("key_missing", 0))
    /\ UNCHANGED <<script, keys, step, inflight, stack, inreq, ncalls, fs,
                   user_input, nreads, tasks_completed, downloaded_files,
                   results>>
    /\ UNCHANGED <<vars, dvars>>

\* visualization, step 1: output directory, dataset, CSV file
SetupViz ==
    /\ mpc = "setup"
    /\ fs' = fs \o <<"output_charts", "output_charts/sales_data.csv">>
    /\ csv_content' = SampleCsv
    /\ mpc' = "ready"
    /\ UNCHANGED <<script, keys, step, inflight, stack, inreq, ncalls, events,
                   user_input, nreads, tasks_completed, downloaded_files,
                   results>>
    /\ UNCHANGED <<pc, variant, args, request, nreq, outcome, result, exc,
                   output_lines, error_lines, ret, nret>>
    /\ UNCHANGED dvars

\* main of a one-shot script calls Runner.run for its next task
Dispatch ==
    /\ mpc = "ready"
    /\ step <= NumTasks(script)
    /\ inflight' = inflight + 1
    /\ ncalls' = 0
    /\ events' = Append(events, Ev("dispatch", step))
    /\ mpc' = PcAfterDispatch
    /\ UNCHANGED <<script, keys, step, stack, inreq, fs, user_input, nreads,
                   tasks_completed, downloaded_files, results>>
    /\ UNCHANGED <<vars, dvars>>

\* the tool invocation the runtime started last and that has not returned
Top == stack[Len(stack)]

\* the agent whose model is choosing the next tool call
RunningAgent ==
    IF stack = << >> THEN MainAgent(script) ELSE AgentOfTool(Top.tool)

\* the runtime invokes a tool of the running agent
ToolCall(t) ==
    /\ mpc = "dispatching"
    /\ inflight > 0
    /\ ncalls < MaxToolCalls
    /\ IF stack = << >> THEN TRUE ELSE Top.tool \in AgentTools
    /\ t \in ToolsOf(RunningAgent)
    /\ stack' = Append(stack, [tool |-> t, phase |-> "called"])
    /\ ncalls' = ncalls + 1
    /\ UNCHANGED <<script, keys, mpc, step, inflight, inreq, events, fs,
                   user_input, nreads, tasks_completed, downloaded_files,
                   results>>
    /\ UNCHANGED <<vars, dvars>>

\* stack with the phase of its top entry replaced
WithPhase(ph) == [stack EXCEPT ![Len(stack)].phase = ph]

\* a sandbox tool issues its remote execute request
ToolExecute ==
    /\ stack # << >>
    /\ Top.tool \in SandboxTools
    /\ Top.phase = "called"
    /\ stack' = WithPhase("awaiting")
    /\ inreq' = inreq + 1
    /\ \E a \in ArgsOf(Top.tool) :
          request' = RequestOf(Top.tool, a, csv_content)
    /\ UNCHANGED <<script, keys, mpc, step, inflight, ncalls, events, fs,
                   user_input, nreads, tasks_completed, downloaded_files,
                   results>>
    /\ UNCHANGED <<pc, variant, args, csv_content, nreq, outcome, result, exc,
                   output_lines, error_lines, ret, nret>>
    /\ UNCHANGED dvars

\* the remote call of the sandbox tool returns or raises
ToolRemoteDone ==
    /\ stack # << >>
    /\ Top.phase = "awaiting"
    /\ stack' = WithPhase("finishing")
    /\ inreq' = inreq - 1
    /\ UNCHANGED <<script, keys, mpc, step, inflight, ncalls, events, fs,
                   user_input, nreads, tasks_completed, downloaded_files,
                   results>>
    /\ UNCHANGED <<vars, dvars>>

\* the tool on top returns its text to the agent that called it
ToolReturn ==
    /\ stack # << >>
    /\ Top.tool \in SandboxTools => Top.phase = "finishing"
    /\ stack' = SubSeq(stack, 1, Len(stack) - 1)
    /\ request' = IF Top.tool \in SandboxTools THEN NoRequest ELSE request
    /\ UNCHANGED <<script, keys, mpc, step, inflight, inreq, ncalls, events,
                   fs, user_input, nreads, tasks_completed, downloaded_files,
                   results>>
    /\ UNCHANGED <<pc, variant, args, csv_content, nreq, outcome, result, exc,
                   output_lines, error_lines, ret, nret>>
    /\ UNCHANGED dvars

\* the record of main once dispatch k returned and main went on to `after`
Returned(k, after) ==
    IF after = "done"
    THEN events \o <<Ev("return", k), Ev("summary", 0)>>
    ELSE Append(events, Ev("return", k))

\* the session counter is left as it was
TasksAfterReturn_Unchanged(n) == n

\* tasks_completed += 1
TasksAfterReturn(n) == n + 1

\* Runner.run returns its result to main
DispatchReturn ==
    /\ mpc = "dispatching"
    /\ stack = << >>
    /\ inflight' = inflight - 1
    /\ CASE script = "interactive" ->
              /\ tasks_completed' = TasksAfterReturn(tasks_completed)
              /\ mpc' = "reading"
              /\ events' = Returned(nreads, "reading")
              /\ UNCHANGED <<step, remote_file, files>>
         [] script = "viz" ->
              /\ mpc' = "download"
              /\ events' = Returned(step, "download")
              /\ remote_file' \in VizSandboxFiles
              /\ files' \in LocalFiles
              /\ UNCHANGED <<step, tasks_completed>>
         [] OTHER ->
              /\ step' = step + 1
              /\ mpc' = (IF step = NumTasks(script) THEN "done" ELSE "ready")
              /\ events' = Returned(step, mpc')
              /\ UNCHANGED <<tasks_completed, remote_file, files>>
    /\ UNCHANGED <<script, keys, stack, inreq, ncalls, fs, user_input, nreads,
                   downloaded_files, results>>
    /\ UNCHANGED <<vars, files0, dl_ret>>

\* Runner.run raises
DispatchRaise ==
    /\ mpc = "dispatching"
    /\ stack = << >>
    /\ inflight' = inflight - 1
    /\ mpc' = PcAfterDispatchRaise(script)
    /\ events' = events \o
         <<Ev("raise", IF script = "interactive" THEN nreads ELSE step),
           Ev(IF mpc' = "reading" THEN "error" ELSE "fatal", 0)>>
    /\ UNCHANGED <<script, keys, step, stack, inreq, ncalls, fs, user_input,
                   nreads, tasks_completed, downloaded_files, results>>
    /\ UNCHANGED <<vars, dvars>>

\* visualization: main calls download_file_from_sandbox for the chart
VizDownloadCall ==
    /\ mpc = "download"
    /\ HelperCalls(SandboxPath(ChartFilenames[step]))
    /\ mpc' = "downloading"
    /\ events' = Append(events, Ev("download", step))
    /\ UNCHANGED <<script, keys, step, inflight, stack, inreq, ncalls, fs,
                   user_input, nreads, tasks_completed, downloaded_files,
                   results>>

\* visualization: the remote call of the helper returns
VizDownloadReturn ==
    /\ mpc = "downloading"
    /\ HelperReturns
    /\ UNCHANGED svars

\* visualization: the remote call of the helper raises
VizDownloadRaise(msg) ==
    /\ mpc = "downloading"
    /\ HelperRaises(msg)
    /\ UNCHANGED svars

\* visualization: the rest of the loop body, after the helper returned
VizRecord ==
    LET ok == dl_ret = "True"
        after == PcAfterDownload(ok, step = NumTasks(script))
        outcomeEv == Ev(IF ok THEN "downloaded" ELSE "download_failed", step)
    IN  /\ mpc = "downloading"
        /\ pc = "dl_returned"
        /\ downloaded_files' =
             IF ok THEN Append(downloaded_files, step) ELSE downloaded_files
        /\ fs' = IF ok THEN Append(fs, ChartFilenames[step]) ELSE fs
        /\ results' = Append(results, step)
        /\ step' = step + 1
        /\ mpc' = after
        /\ events' = IF after = "done"
                     THEN events \o <<outcomeEv, Ev("summary", 0)>>
                     ELSE Append(events, outcomeEv)
        /\ pc' = "idle"
        /\ variant' = "none"
        /\ request' = NoRequest
        /\ nreq' = 0
        /\ outcome' = "none"
        /\ result' = NoResult
        /\ exc' = ""
        /\ remote_file' = Missing
        /\ files' = NoFile
        /\ files0' = NoFile
        /\ dl_ret' = "none"
        /\ UNCHANGED <<script, keys, inflight, stack, inreq, ncalls,
                       user_input, nreads, tasks_completed>>
        /\ UNCHANGED <<args, csv_content, output_lines, error_lines, ret, nret>>

\* interactive: standard input has reached its end; input() cannot return a
\* line any more
StdinExhausted == \E i \in 1..Len(events) : events[i].e = "eof"

\* interactive: input() returns a line
ReadLine(line) ==
    LET n == nreads + 1
        read == Append(events, Ev("read", n))
    IN  /\ mpc = "reading"
        /\ nreads < MaxInputs
        /\ ~StdinExhausted
        /\ nreads' = n
        /\ user_input' = Strip(line)
        /\ IF user_input' = EmptyText
           THEN /\ mpc' = "reading"
                /\ events' = read
                /\ UNCHANGED <<inflight, ncalls>>
           ELSE IF LowerText(user_input') \in ExitKeywords
           THEN /\ mpc' = "done"
                /\ events' = Append(read, Ev("summary", tasks_completed))
                /\ UNCHANGED <<inflight, ncalls>>
           ELSE /\ inflight' = inflight + 1
                /\ ncalls' = 0
                /\ mpc' = PcAfterDispatch
                /\ events' = Append(read, Ev("dispatch", n))
        /\ UNCHANGED <<script, keys, step, stack, inreq, fs, tasks_completed,
                       downloaded_files, results>>
        /\ UNCHANGED <<vars, dvars>>

\* interactive: input() raises EOFError, which `except Exception` catches.
\* Past MaxInputs the repeated failing read is no longer recorded.
ReadEOF ==
    /\ mpc = "reading"
    /\ nreads < MaxInputs \/ StdinExhausted
    /\ mpc' = "caught"
    /\ IF nreads < MaxInputs
       THEN /\ nreads' = nreads + 1
            /\ events' = events \o <<Ev("read", nreads + 1), Ev("eof", 0),
                                      Ev("error", 0)>>
       ELSE UNCHANGED <<nreads, events>>
    /\ UNCHANGED <<script, keys, step, inflight, stack, inreq, ncalls, fs,
                   user_input, tasks_completed, downloaded_files, results>>
    /\ UNCHANGED <<vars, dvars>>

\* interactive: the handler of EOFError has printed; the loop starts its next
\* iteration and calls input() again
ReadAgain ==
    /\ mpc = "caught"
    /\ mpc' = "reading"
    /\ UNCHANGED <<script, keys, step, inflight, stack, inreq, ncalls, events,
                   fs, user_input, nreads, tasks_completed, downloaded_files,
                   results>>
    /\ UNCHANGED <<vars, dvars>>

\* interactive: input() raises KeyboardInterrupt
ReadInterrupt ==
    /\ mpc = "reading"
    /\ nreads < MaxInputs
    /\ nreads' = nreads + 1
    /\ mpc' = "done"
    /\ events' = events \o <<Ev("read", nreads + 1), Ev("interrupt", 0)>>
    /\ UNCHANGED <<script, keys, step, inflight, stack, inreq, ncalls, fs,
                   user_input, tasks_completed, downloaded_files, results>>
    /\ UNCHANGED <<vars, dvars>>

\* visualization: the chart entries of the final summary,
\* zip(results, downloaded_files): the visualization named and the
\* visualization whose file is shown, entry by entry
ChartEntries ==
    LET n == IF Len(results) <= Len(downloaded_files)
             THEN Len(results) ELSE Len(downloaded_files)
    IN  [i \in 1..n |-> [result |-> results[i], file_info |-> downloaded_files[i]]]

ScriptNext ==
    \/ CheckKeys
    \/ SetupViz
    \/ Dispatch
    \/ \E t \in AgentTools \cup SandboxTools \cup {"save_result", "save_finding"} :
          ToolCall(t)
    \/ ToolExecute
    \/ ToolRemoteDone
    \/ ToolReturn
    \/ DispatchReturn
    \/ DispatchRaise
    \/ VizDownloadCall
    \/ VizDownloadReturn
    \/ \E msg \in ExceptionMessages : VizDownloadRaise(msg)
    \/ VizRecord
    \/ \E line \in InputLines : ReadLine(line)
    \/ ReadEOF
    \/ ReadAgain
    \/ ReadInterrupt

\* the five scripts run from the start of main
SpecScripts == InitScripts /\ [][ScriptNext]_allvars

\* the steps the program and the services it waits for take on their own;
\* what the user types, and a keyboard interrupt, are not among them
ProgramStep ==
    \/ CheckKeys
    \/ SetupViz
    \/ Dispatch
    \/ ToolExecute
    \/ ToolRemoteDone
    \/ ToolReturn
    \/ DispatchReturn
    \/ DispatchRaise
    \/ VizDownloadCall
    \/ VizDownloadReturn
    \/ \E msg \in ExceptionMessages : VizDownloadRaise(msg)
    \/ VizRecord
    \/ ReadEOF
    \/ ReadAgain

\* the scripts, with the program never stopping while it has a step to take
SpecScriptsLive == SpecScripts /\ WF_allvars(ProgramStep)

\* ===================================================================== claims
\* helpers of the statements below, defined without the adapter's operators

\* the data of the items of one type, in the order of outputs
DataOfType(outputs, t) ==
    LET items == SelectSeq(outputs, LAMBDA it : it.type = t)
    IN  [i \in 1..Len(items) |-> items[i].data]

\* texts joined by one newline, built from the last text backwards
RECURSIVE Flat(_)
Flat(texts) ==
    IF Len(texts) = 0 THEN EmptyText
    ELSE IF Len(texts) = 1 THEN texts[1]
    ELSE Flat(SubSeq(texts, 1, Len(texts) - 1)) \o <<NL>> \o texts[Len(texts)]

\* number of items of type t among the first i items
CountType(outputs, t, i) ==
    Cardinality({k \in 1..i : outputs[k].type = t})

HasType(outputs, t) == \E i \in 1..Len(outputs) : outputs[i].type = t

GotResult == pc = "returned" /\ outcome = "result"
FailingStatus == result.status \in {"error", "failed"}

\* the success header a variant puts before its output block
SuccessHeader(v) ==
    CASE v = "execute_python_analysis" -> <<"[ok] Analysis complete:", NL>>
      [] v = "analyze_data_and_create_chart" ->
             <<"[ok] Chart created successfully!", NL, NL>>
      [] OTHER -> EmptyText

\* the literal header of a variant's error section
ErrorHeader(v) ==
    IF v = "analyze_data_and_create_chart"
    THEN <<"[!] Warnings/Errors:", NL>>
    ELSE <<"Errors:", NL>>

\* the text says that the code ran and that there was no output
SaysNoOutput(text) ==
    /\ Len(text) > 0
    /\ text[1] \in {"Code executed successfully (status: ",
                    "[!] Code executed but no output captured. Make sure to use print() statements!",
                    "[!] Chart created but no analysis output captured."}
    /\ text[Len(text)] \in {"ms) but produced no output.",
                            ") but produced no output.",
                            "[!] Code executed but no output captured. Make sure to use print() statements!",
                            "[!] Chart created but no analysis output captured."}

\* C1 (as stated): on a failing status the returned text contains the status
\* and contains the data of no stdout item of outputs.
C1_FailureHidesStdoutData ==
    (GotResult /\ FailingStatus) =>
        /\ Contains(ret, <<result.status>>)
        /\ \A i \in 1..Len(result.outputs) :
              result.outputs[i].type = "stdout"
                  => ~Contains(ret, result.outputs[i].data)

\* C1 (amended): on a failing status the returned text contains the status and
\* no stdout item contributes to it: it is the text returned for the same
\* result with every stdout item removed.
C1_FailureIgnoresStdout ==
    (GotResult /\ FailingStatus) =>
        /\ Contains(ret, <<result.status>>)
        /\ ret = AdapterText(variant,
                   [result EXCEPT !.outputs =
                       SelectSeq(result.outputs, LAMBDA it : it.type # "stdout")])

C1_Witness ==
    /\ GotResult
    /\ result.status = "failed"
    /\ HasType(result.outputs, "stdout")
    /\ \E i \in 1..Len(result.outputs) :
          result.outputs[i].type = "stdout" /\ result.outputs[i].data = <<"a">>

\* C2: a non-failing status (queued and running included) with empty outputs
\* returns a text saying that the code ran and produced no output; the two
\* execute_code variants embed the status in it.
C2_EmptyOutputsSayNoOutput ==
    (GotResult /\ ~FailingStatus /\ result.outputs = << >>) =>
        /\ SaysNoOutput(ret)
        /\ variant \in {"execute_code", "execute_code_with_network"}
              => Contains(ret, <<result.status>>)

C2_Witness ==
    /\ GotResult
    /\ result.status = "queued"
    /\ result.outputs = << >>
    /\ variant = "execute_python_analysis"

\* C3 (as stated): for every variant, non-failing outputs made of stdout items
\* only return exactly the data joined by newlines, nothing before or after.
C3_StdoutOnlyIsExactJoin ==
    (GotResult /\ ~FailingStatus /\ Len(result.outputs) > 0
        /\ ~HasType(result.outputs, "stderr")) =>
        ret = Flat(DataOfType(result.outputs, "stdout"))

\* C3 (amended): the returned text is the variant's success header (empty for
\* execute_code and execute_code_with_network) followed by exactly the data
\* joined by newlines in their order, with no suffix and no error section.
C3_StdoutOnlyIsHeaderThenJoin ==
    (GotResult /\ ~FailingStatus /\ Len(result.outputs) > 0
        /\ ~HasType(result.outputs, "stderr")) =>
        ret = SuccessHeader(variant) \o Flat(DataOfType(result.outputs, "stdout"))

C3_Witness ==
    /\ GotResult
    /\ ~FailingStatus
    /\ variant = "execute_code"
    /\ DataOfType(result.outputs, "stdout") = << <<"a">>, <<"b">> >>
    /\ ~HasType(result.outputs, "stderr")
    /\ ret = <<"a", NL, "b">>

\* C4: with at least one stdout and one stderr item on a non-failing status,
\* the text holds the whole stdout block, and ends with the error section: the
\* literal header followed by all stderr data; the stdout block lies wholly
\* before the header, however the items were interleaved.
C4_OutputThenErrorSection ==
    (GotResult /\ ~FailingStatus /\ HasType(result.outputs, "stdout")
        /\ HasType(result.outputs, "stderr")) =>
        LET out == Flat(DataOfType(result.outputs, "stdout"))
            section == ErrorHeader(variant) \o Flat(DataOfType(result.outputs, "stderr"))
            q == Len(ret) - Len(section)
        IN  /\ q >= 0
            /\ SubSeq(ret, q + 1, Len(ret)) = section
            /\ \E p \in 0..q :
                  /\ p + Len(out) <= q
                  /\ SubSeq(ret, p + 1, p + Len(out)) = out
                  /\ \A k \in 1..q : ret[k] # ErrorHeader(variant)[1]

C4_Witness ==
    /\ GotResult
    /\ ~FailingStatus
    /\ Len(result.outputs) = 3
    /\ result.outputs[1].type = "stderr"
    /\ result.outputs[2].type = "stdout"
    /\ result.outputs[3].type = "stderr"
    /\ result.outputs[2].data = <<"a">>
    /\ variant = "execute_code_with_network"

\* C5: an invocation never ends in a propagated fault and returns exactly one
\* text; when the remote call raised, the text is the variant's failure
\* string and embeds the exception's message.
C5_OneTextNeverAFault ==
    /\ pc \in {"idle", "request", "awaiting", "returned"}
    /\ nret = (IF pc = "returned" THEN 1 ELSE 0)
    /\ (pc = "returned" /\ outcome = "raised") =>
          /\ ret[1] \in {"Error executing code: ", "[x] Execution failed: ",
                         "[x] Error: "}
          /\ Contains(ret, <<exc>>)
    /\ (pc = "awaiting") => outcome = "none"

C5_Witness ==
    /\ pc = "returned"
    /\ outcome = "raised"
    /\ exc = "unauthorized"
    /\ variant = "analyze_data_and_create_chart"

\* C6 (as stated): for every variant the failure text depends on the status
\* only: it is the text returned for the same status with no outputs at all.
C6_FailureDependsOnStatusOnly ==
    (GotResult /\ FailingStatus) =>
        ret = AdapterText(variant, [result EXCEPT !.outputs = << >>])

\* C6 (amended): execute_code, execute_code_with_network and
\* execute_python_analysis return a failure text that depends on the status
\* only; analyze_data_and_create_chart drops the stdout items but appends the
\* data of the stderr items, newline-joined, to its status line.
C6_FailureDropsOutputButChartKeepsStderr ==
    (GotResult /\ FailingStatus) =>
        LET bare == AdapterText(variant, [result EXCEPT !.outputs = << >>])
        IN  IF variant = "analyze_data_and_create_chart"
            THEN ret = bare \o Flat(DataOfType(result.outputs, "stderr"))
            ELSE ret = bare

C6_Witness ==
    /\ GotResult
    /\ result.status = "error"
    /\ variant = "analyze_data_and_create_chart"
    /\ HasType(result.outputs, "stdout")
    /\ DataOfType(result.outputs, "stderr") = << <<"b">> >>

\* C7: on a non-failing status, when the joined stdout block and the joined
\* stderr block are both empty text, the adapter returns the no-output
\* message, and so never the empty string.
C7_EmptyBlocksSayNoOutput ==
    (GotResult /\ ~FailingStatus
        /\ Flat(DataOfType(result.outputs, "stdout")) = EmptyText
        /\ Flat(DataOfType(result.outputs, "stderr")) = EmptyText) =>
        /\ SaysNoOutput(ret)
        /\ ret # EmptyText

\* C8 (as stated): for every variant, with stdout and stderr items both
\* present on a non-failing status, the text is the output block, a blank
\* line, then the error block.
C8_BlocksSeparatedByBlankLine ==
    (GotResult /\ ~FailingStatus /\ HasType(result.outputs, "stdout")
        /\ HasType(result.outputs, "stderr")) =>
        ret = Flat(DataOfType(result.outputs, "stdout")) \o <<NL, NL>>
              \o ErrorHeader(variant) \o Flat(DataOfType(result.outputs, "stderr"))

\* C8 (amended): the text is the variant's success header (empty for the two
\* execute_code variants), the output block, a separator and the error block;
\* the separator is a blank line except in execute_python_analysis, where it
\* is a single newline.  Without stderr items no error header appears.
C8_HeaderBlocksAndVariantSeparator ==
    /\ (GotResult /\ ~FailingStatus /\ HasType(result.outputs, "stdout")
          /\ HasType(result.outputs, "stderr")) =>
          ret = SuccessHeader(variant)
                \o Flat(DataOfType(result.outputs, "stdout"))
                \o (IF variant = "execute_python_analysis"
                    THEN <<NL>> ELSE <<NL, NL>>)
                \o ErrorHeader(variant)
                \o Flat(DataOfType(result.outputs, "stderr"))
    /\ (GotResult /\ ~FailingStatus /\ ~HasType(result.outputs, "stderr")) =>
          ~Contains(ret, <<ErrorHeader(variant)[1]>>)

C8_Witness ==
    /\ GotResult
    /\ ~FailingStatus
    /\ variant = "execute_code"
    /\ ret = <<"a", NL, NL, "Errors:", NL, "b">>

\* C9: the partition keeps the relative order of the items of one type: the
\* k-th stdout item of outputs is the k-th output line, the k-th stderr item
\* is the k-th error line, none is lost or duplicated, and the blocks of the
\* returned text are these lines joined in that order.
C9_PartitionPreservesOrder ==
    (GotResult /\ ~FailingStatus) =>
        LET outputs == result.outputs
            n == Len(outputs)
        IN  /\ Len(output_lines) = CountType(outputs, "stdout", n)
            /\ Len(error_lines) = CountType(outputs, "stderr", n)
            /\ \A i \in 1..n :
                  /\ outputs[i].type = "stdout" =>
                        output_lines[CountType(outputs, "stdout", i)] = outputs[i].data
                  /\ outputs[i].type = "stderr" =>
                        error_lines[CountType(outputs, "stderr", i)] = outputs[i].data
            /\ Len(output_lines) > 0 =>
                  Contains(ret, SuccessHeader(variant) \o Flat(output_lines))
            /\ Len(error_lines) > 0 =>
                  Contains(ret, ErrorHeader(variant) \o Flat(error_lines))

C9_Witness ==
    /\ GotResult
    /\ ~FailingStatus
    /\ Len(result.outputs) = 3
    /\ result.outputs[1] = [type |-> "stdout", data |-> <<"b">>]
    /\ result.outputs[2] = [type |-> "stderr", data |-> <<"a">>]
    /\ result.outputs[3] = [type |-> "stdout", data |-> <<"a">>]
    /\ output_lines = << <<"b">>, <<"a">> >>

\* C10: an invocation issues exactly one remote execute request on every
\* path: one has been issued when the text is returned, and never a second
\* one, whether the call raised or a failing status came back.
C10_ExactlyOneRequest ==
    /\ nreq <= 1
    /\ pc \in {"awaiting", "returned"} => nreq = 1
    /\ pc \in {"idle", "request"} => nreq = 0

C10_Witness ==
    /\ pc = "returned"
    /\ nreq = 1
    /\ (outcome = "raised" \/ result.status = "failed")
    /\ variant = "execute_code_with_network"

\* ------------------------------------------------ claims on the sandbox calls

\* a remote execute request of the running function is out
RequestIssued == pc \in {"awaiting", "returned", "dl_awaiting", "dl_returned"}

\* C11: the networking flag of a request is fixed by the function that issues
\* it, whatever code and language the caller passed: enabled in every request
\* of execute_code_with_network, disabled in every request of execute_code,
\* execute_python_analysis, analyze_data_and_create_chart and
\* download_file_from_sandbox.
C11_NetworkingFixedByVariant ==
    RequestIssued =>
        /\ variant \in Variants \cup {"download_file_from_sandbox"}
        /\ request.networking = (variant = "execute_code_with_network")

C11_Witness ==
    /\ pc = "awaiting"
    /\ variant = "execute_code"
    /\ args.language = "bash"
    /\ args.code = "x = 1"
    /\ request.networking = FALSE

\* the stdout of a run: the data of its stdout items, in order, end to end
RECURSIVE StdoutText(_)
StdoutText(outputs) ==
    IF Len(outputs) = 0 THEN EmptyText
    ELSE (IF outputs[1].type = "stdout" THEN outputs[1].data ELSE EmptyText)
         \o StdoutText(Tail(outputs))

\* BASE64_START, a newline, the base64 text of bytes, a newline, BASE64_END
Frame(bytes) == <<BASE64_START, NL>> \o b64encode(bytes) \o <<NL, BASE64_END>>

DownloadGotResult == pc = "dl_returned" /\ outcome = "result"

\* C12: when the captured stdout contains BASE64_START, a newline, valid
\* base64 text, a newline and BASE64_END, the helper writes exactly the
\* decoding of that text to the destination and returns True.
C12_FramedPayloadIsWritten ==
    DownloadGotResult =>
        \A b \in ByteSeqs :
            Contains(StdoutText(result.outputs), Frame(b))
                => (dl_ret = "True" /\ files = b)

\* a text base64 accepts without discarding anything: groups of four
\* characters of the alphabet, the last one padded with at most two "="
IsValidBase64(text) ==
    /\ Len(text) % 4 = 0
    /\ \A i \in 1..Len(text) :
          \/ IsB64Char(text[i])
          \/ /\ text[i] = "="
             /\ i >= Len(text) - 1
             /\ \A k \in i..Len(text) : text[k] = "="

\* some stdout item holds both sentinels around a text that is not base64
InvalidPayload(outputs) ==
    \E i \in 1..Len(outputs) :
        /\ outputs[i].type = "stdout"
        /\ Contains(outputs[i].data, <<BASE64_START>>)
        /\ Contains(outputs[i].data, <<BASE64_END>>)
        /\ ~IsValidBase64(Strip(Between(outputs[i].data)))

\* C13: the helper fails softly: when the stdout contains the file-not-found
\* line, or lacks a sentinel, or the remote call raised, or the payload is not
\* valid base64, it returns False and leaves the local file as it was.
C13_FailsSoftlyWithoutWriting ==
    (pc = "dl_returned"
        /\ \/ outcome = "raised"
           \/ Contains(StdoutText(result.outputs), <<FileNotFound>>)
           \/ ~Contains(StdoutText(result.outputs), <<BASE64_START>>)
           \/ ~Contains(StdoutText(result.outputs), <<BASE64_END>>)
           \/ InvalidPayload(result.outputs))
    => (dl_ret = "False" /\ files = files0)

\* C14: round trip of the framing: the bytes of the sandbox file, encoded and
\* printed between the sentinel lines by the remote code and delivered as one
\* stdout item, are extracted and decoded to exactly the same bytes, the
\* empty file and files with newline bytes included.
C14_FramingRoundTrip ==
    (DownloadGotResult /\ remote_file # Missing
        /\ result.outputs =
             <<[type |-> "stdout",
                data |-> <<BASE64_START, NL>> \o b64encode(remote_file)
                         \o <<NL, BASE64_END, NL>>]>>)
    => (dl_ret = "True" /\ files = remote_file)

C14_Witness ==
    /\ DownloadGotResult
    /\ remote_file = <<0, 10, 255>>
    /\ files0 = <<7>>
    /\ Len(result.outputs) = 1
    /\ result.outputs[1].data =
         <<BASE64_START, NL, "A", "A", "r", "/", NL, BASE64_END, NL>>
    /\ files = <<0, 10, 255>>

\* C15: the helper scans the stdout as a whole: whenever the stdout of the
\* download run holds the sentinels around the payload, the payload is
\* extracted and the helper succeeds, however the service cut that stdout
\* into output items.
C15_SucceedsHoweverStdoutIsSplit ==
    (DownloadGotResult /\ remote_file # Missing
        /\ result.outputs \in Deliveries(RemoteStdout(remote_file)))
    => (dl_ret = "True" /\ files = remote_file)

\* ------------------------------------------------------ claims on the scripts
HasEvent(e) == \E i \in 1..Len(events) : events[i].e = e

LastEvent == events[Len(events)]

\* C16: in every script, when the model-provider key or the sandbox-provider
\* key is absent, main detects it at start, prints an instruction and returns
\* early: no dispatch, no remote execute request and no filesystem write
\* occurs in that run.
C16_MissingKeyMeansEarlyReturn ==
    (script \in Scripts /\ keys # Credentials /\ mpc # "start")
    => /\ mpc = "early"
       /\ LastEvent = Ev("key_missing", 0)
       /\ ~HasEvent("dispatch")
       /\ inflight = 0
       /\ inreq = 0
       /\ nreq = 0
       /\ fs = << >>

\* the exit keywords of the statement
ExitWords ==
    {<<"e", "x", "i", "t">>, <<"q", "u", "i", "t">>, <<"b", "y", "e">>, <<"q">>}

Capitals ==
    {<<"b", "B">>, <<"e", "E">>, <<"i", "I">>, <<"q", "Q">>, <<"t", "T">>,
     <<"u", "U">>, <<"x", "X">>, <<"y", "Y">>}

\* text is an exit keyword written in any mix of cases
IsExitInput(text) ==
    \E w \in ExitWords :
        /\ Len(text) = Len(w)
        /\ \A i \in 1..Len(w) : text[i] = w[i] \/ <<w[i], text[i]>> \in Capitals

\* C17: in the interactive script, as soon as the line read is, once trimmed
\* and lower-cased, one of exit, quit, bye, q, the loop ends: no dispatch is
\* issued for that line, the session summary is printed, and no further
\* input is read.
C17_ExitKeywordEndsLoop ==
    [][/\ (script = "interactive" /\ nreads' = nreads + 1
              /\ IsExitInput(user_input'))
          => /\ mpc' = "done"
             /\ inflight' = 0
             /\ events' = events \o <<Ev("read", nreads'),
                                      Ev("summary", tasks_completed)>>
       /\ (script = "interactive" /\ mpc = "done") => nreads' = nreads
      ]_allvars

C17_Witness ==
    /\ script = "interactive"
    /\ mpc = "done"
    /\ user_input = <<"Q", "U", "I", "T">>
    /\ tasks_completed = 1
    /\ LastEvent = Ev("summary", 1)
    /\ inflight = 0

\* C18: in the interactive script a fault raised while handling one input is
\* caught inside the loop and printed, and the loop goes on reading; only an
\* exit keyword or a keyboard interrupt ends the loop.
C18_FaultKeepsLoopRunning ==
    /\ [](script = "interactive" =>
            /\ mpc \in {"start", "early", "reading", "caught", "dispatching",
                       "done"}
            /\ mpc = "done" =>
                 \/ LastEvent.e = "interrupt"
                 \/ LastEvent.e = "summary" /\ IsExitInput(user_input))
    /\ [][(script = "interactive" /\ Len(events') > Len(events)
              /\ events'[Len(events) + 1].e = "raise")
          => /\ mpc' = "reading"
             /\ LastEvent' = Ev("error", 0)
             /\ tasks_completed' = tasks_completed
             /\ inflight' = 0
         ]_allvars

C18_Witness ==
    /\ script = "interactive"
    /\ mpc = "reading"
    /\ events = <<Ev("read", 1), Ev("dispatch", 1), Ev("raise", 1),
                  Ev("error", 0), Ev("read", 2), Ev("dispatch", 2),
                  Ev("return", 2)>>
    /\ tasks_completed = 1

\* the dispatches and download attempts of main, in the order they were made
Attempts ==
    SelectSeq(events, LAMBDA x : x.e \in {"dispatch", "download"})

\* C19: in the visualization workflow a download that returns False does not
\* abort the run: main goes on to the next visualization, the visualizations
\* are dispatched and their downloads attempted in the original order, and
\* after the last one the summary is reached.
C19_FailedDownloadDoesNotAbort ==
    /\ [](script = "viz" =>
            /\ \A i \in 1..Len(Attempts) :
                  Attempts[i] = Ev(IF i % 2 = 1 THEN "dispatch" ELSE "download",
                                   (i + 1) \div 2)
            /\ HasEvent("download_failed") => mpc # "crashed" \/ HasEvent("raise")
            /\ mpc = "done" =>
                  /\ Len(Attempts) = 2 * Len(ChartFilenames)
                  /\ LastEvent = Ev("summary", 0))
    /\ [][(script = "viz" /\ mpc = "downloading" /\ mpc' # "downloading"
              /\ dl_ret = "False")
          => /\ step' = step + 1
             /\ mpc' = (IF step = Len(ChartFilenames) THEN "done" ELSE "ready")
             /\ results' = Append(results, step)
             /\ downloaded_files' = downloaded_files
         ]_allvars

C19_Witness ==
    /\ script = "viz"
    /\ mpc = "done"
    /\ HasEvent("download_failed")
    /\ downloaded_files = <<2, 4>>
    /\ results = <<1, 2, 3, 4>>
    /\ LastEvent = Ev("summary", 0)

\* remote execute requests that have been issued and have not come back
RequestsInFlight ==
    inreq + (IF pc \in {"awaiting", "dl_awaiting"} THEN 1 ELSE 0)

EventsOf(e) == SelectSeq(events, LAMBDA x : x.e = e)

\* C21: in the basic-tasks script the eight dispatches are issued in the
\* order task 1 to task 8; when dispatch k raises the fault is not caught and
\* no dispatch after k is issued; the final banner is printed only when all
\* eight dispatches have returned.
C21_EightTasksInOrderOrStop ==
    script = "basic" =>
        /\ \A i \in 1..Len(EventsOf("dispatch")) :
              EventsOf("dispatch")[i].k = i
        /\ Len(EventsOf("dispatch")) <= 8
        /\ \A i \in 1..Len(EventsOf("return")) : EventsOf("return")[i].k = i
        /\ HasEvent("raise") =>
              /\ mpc = "crashed"
              /\ LastEvent = Ev("fatal", 0)
              /\ Len(EventsOf("raise")) = 1
              /\ EventsOf("raise")[1].k = Len(EventsOf("dispatch"))
              /\ Len(EventsOf("return")) = Len(EventsOf("dispatch")) - 1
              /\ ~HasEvent("summary")
        /\ HasEvent("summary") =>
              /\ Len(EventsOf("return")) = 8
              /\ LastEvent = Ev("summary", 0)
              /\ mpc = "done"

C21_Witness ==
    /\ script = "basic"
    /\ mpc = "crashed"
    /\ Len(EventsOf("dispatch")) = 3
    /\ Len(EventsOf("return")) = 2
    /\ EventsOf("raise") = <<Ev("raise", 3)>>

\* the chart tool is in flight and has sent its request
ChartRequestOut ==
    /\ stack # << >>
    /\ Top.tool = "analyze_data_and_create_chart"
    /\ Top.phase \in {"awaiting", "finishing"}

\* C22: in the visualization script csv_content is assigned the generated CSV
\* text before the first dispatch and never changes afterwards, so every
\* request of analyze_data_and_create_chart embeds that same dataset, never
\* the null value.
C22_DatasetSetBeforeFirstDispatch ==
    /\ [](script = "viz" =>
            /\ HasEvent("dispatch") => csv_content = SampleCsv
            /\ ChartRequestOut =>
                 /\ request.code[1] = "csv_content = "
                 /\ request.code[2] = SampleCsv
                 /\ request.code[2] # "None")
    /\ [][(script = "viz" /\ HasEvent("dispatch"))
             => csv_content' = csv_content]_allvars

C22_Witness ==
    /\ script = "viz"
    /\ step = 2
    /\ ChartRequestOut
    /\ Top.phase = "awaiting"
    /\ request.code[2] = SampleCsv
    /\ csv_content = SampleCsv

\* the position of the first occurrence of part in text, 0 when there is none
FirstAt(text, part) ==
    IF Contains(text, part)
    THEN CHOOSE i \in 1..Len(text) :
            /\ i + Len(part) - 1 <= Len(text)
            /\ \A k \in 1..Len(part) : text[i + k - 1] = part[k]
            /\ \A j \in 1..(i - 1) :
                  \E k \in 1..Len(part) : text[j + k - 1] # part[k]
    ELSE 0

StartLetters == <<"B", "A", "S", "E", "6", "4", "_", "S", "T", "A", "R", "T">>
EndLetters == <<"B", "A", "S", "E", "6", "4", "_", "E", "N", "D">>

\* C23: the sentinel framing never collides with the payload: the base64
\* text printed between the sentinel lines holds no character that base64
\* does not produce ("_", ":", space, newline), hence neither sentinel nor
\* the file-not-found line, and the first occurrence of each sentinel in the
\* stdout, read character by character, is the framing line itself.
C23_SentinelsNeverInPayload ==
    (pc \in {"dl_awaiting", "dl_returned"} /\ remote_file # Missing)
    => LET payload == b64encode(remote_file)
           out == Spell(RemoteStdout(remote_file))
       IN  /\ \A i \in 1..Len(payload) :
                 /\ payload[i] \notin {"_", "-", ":", " ", NL, FileNotFound}
                 /\ payload[i] \notin {BASE64_START, BASE64_END}
           /\ ~Contains(payload, StartLetters)
           /\ ~Contains(payload, EndLetters)
           /\ FirstAt(out, StartLetters) = 1
           /\ FirstAt(out, EndLetters) = Len(StartLetters) + Len(payload) + 3

C23_Witness ==
    /\ pc = "dl_returned"
    /\ remote_file = <<255, 255, 255>>
    /\ b64encode(remote_file) = <<"/", "/", "/", "/">>
    /\ dl_ret = "True"
    /\ files = remote_file

\* C24: whenever the helper returns True, the stdout item it used holds
\* BASE64_START before BASE64_END and the bytes written are the base64
\* decoding of the trimmed text strictly between the first BASE64_START and
\* the first BASE64_END; success is never reported for an item in which
\* BASE64_END comes before BASE64_START.
C24_SuccessMeansStartBeforeEnd ==
    (DownloadGotResult /\ dl_ret = "True")
    => \E i \in 1..Len(result.outputs) :
          LET item == result.outputs[i]
          IN  /\ item.type = "stdout"
              /\ Contains(item.data, <<BASE64_START>>)
              /\ Contains(item.data, <<BASE64_END>>)
              /\ IndexOf(item.data, BASE64_START) < IndexOf(item.data, BASE64_END)
              /\ files = b64decode(Strip(
                     SubSeq(item.data, IndexOf(item.data, BASE64_START) + 1,
                                       IndexOf(item.data, BASE64_END) - 1)))

\* C25: in the final summary of the visualization script every chart entry
\* pairs the name and duration of a visualization with the downloaded file
\* of that same visualization, whichever downloads succeeded or failed.
C25_SummaryPairsSameVisualization ==
    (script = "viz" /\ mpc = "done")
    => \A i \in 1..Len(ChartEntries) :
          ChartEntries[i].result = ChartEntries[i].file_info

\* C26: the interactive read-loop eventually terminates once standard input
\* is exhausted: after reading a line failed with end-of-input the loop ends.
C26_EndOfInputEndsLoop ==
    (script = "interactive" /\ StdinExhausted) ~> (mpc = "done")

\* C27: in the interactive script tasks_completed always equals the number
\* of dispatches that returned: an empty or whitespace-only line issues no
\* dispatch and leaves it unchanged, a dispatch that raises leaves it
\* unchanged, and each dispatch that returns increases it by exactly one.
C27_CounterCountsReturnedDispatches ==
    /\ [](script = "interactive" =>
            tasks_completed = Len(EventsOf("return")))
    /\ [][script = "interactive" =>
            /\ (nreads' = nreads + 1 /\ user_input' = EmptyText
                   /\ LastEvent'.e \notin {"error", "interrupt"})
                => /\ tasks_completed' = tasks_completed
                   /\ inflight' = inflight
                   /\ events' = Append(events, Ev("read", nreads'))
            /\ (inflight' < inflight)
                => tasks_completed' - tasks_completed =
                     (IF LastEvent'.e = "return" THEN 1 ELSE 0)
         ]_allvars

C27_Witness ==
    /\ script = "interactive"
    /\ events = <<Ev("read", 1), Ev("read", 2), Ev("dispatch", 2),
                  Ev("raise", 2), Ev("error", 0), Ev("read", 3),
                  Ev("dispatch", 3), Ev("return", 3)>>
    /\ tasks_completed = 1

\* C28: in the multi-agent system the orchestrator invokes only the three
\* agent-tools and save_finding, the report writer only save_finding, and
\* every remote execute request is issued by execute_python_analysis running
\* inside a data_analyst_tool or statistician_tool invocation, never directly
\* from the orchestrator or from the report writer.
C28_SandboxOnlyThroughAnalysts ==
    script = "multi" =>
        /\ Len(stack) >= 1 =>
              stack[1].tool \in {"data_analyst_tool", "statistician_tool",
                                 "report_writer_tool", "save_finding"}
        /\ (Len(stack) >= 2 /\ stack[1].tool = "report_writer_tool") =>
              stack[2].tool = "save_finding"
        /\ (inreq > 0 \/ \E i \in 1..Len(stack) :
                            stack[i].phase \in {"awaiting", "finishing"}) =>
              /\ Len(stack) = 2
              /\ stack[1].tool \in {"data_analyst_tool", "statistician_tool"}
              /\ stack[2].tool = "execute_python_analysis"
              /\ request.language = "python"
              /\ request.networking = FALSE

C28_Witness ==
    /\ script = "multi"
    /\ step = 2
    /\ Len(stack) = 2
    /\ stack[1].tool = "statistician_tool"
    /\ stack[2] = [tool |-> "execute_python_analysis", phase |-> "awaiting"]
    /\ inreq = 1
    /\ request.code = <<"print(1)">>

\* ----------------------------------------------- claims on the chart code
CategoryChart == "# Revenue by Category Analysis"
RegionChart == "# Revenue by Region Analysis"
TopProductsChart == "# Top Products Analysis"
TrendChart == "# Daily Revenue Trend"
DefaultChart == "# Default Analysis: Revenue by Category"

ChartBodies ==
    {CategoryChart, RegionChart, TopProductsChart, TrendChart, DefaultChart}

\* the lower-cased description contains the keyword, inside one of its words
Mentions(description, keyword) ==
    \E i \in 1..Len(description) :
        <<description[i], keyword>> \in
            {<<"revenue", "revenue">>, <<"Revenue", "revenue">>,
             <<"category", "category">>, <<"Category", "category">>,
             <<"region", "region">>, <<"Region", "region">>,
             <<"product", "product">>, <<"products", "product">>,
             <<"top", "top">>, <<"Top", "top">>, <<"stop", "top">>,
             <<"trend", "trend">>, <<"time", "time">>, <<"timeline", "time">>}

\* the chart of the first matching rule of the statement
FirstMatch(description) ==
    CASE Mentions(description, "revenue") /\ Mentions(description, "category") ->
             CategoryChart
      [] ~(Mentions(description, "revenue") /\ Mentions(description, "category"))
            /\ Mentions(description, "region") -> RegionChart
      [] ~(Mentions(description, "revenue") /\ Mentions(description, "category"))
            /\ ~Mentions(description, "region")
            /\ Mentions(description, "product") /\ Mentions(description, "top") ->
             TopProductsChart
      [] ~(Mentions(description, "revenue") /\ Mentions(description, "category"))
            /\ ~Mentions(description, "region")
            /\ ~(Mentions(description, "product") /\ Mentions(description, "top"))
            /\ (Mentions(description, "trend") \/ Mentions(description, "time")) ->
             TrendChart
      [] OTHER -> DefaultChart

====
